---- MODULE Spec2Model ----
(***************************************************************************)
(* Model of readjson.py (NekoparaScnExtractor): the incremental extraction *)
(* driver, the change detector, and the per-entry resolvers.               *)
(*                                                                         *)
(* JSON values are tagged records [t, v]:                                  *)
(*   t = "str"  : v is the sequence of the string's Unicode codepoints     *)
(*   t = "list" : v is the sequence of element values                      *)
(*   t = "dict" : v is a record, one field per key the program looks up;   *)
(*                a key that is not present holds Absent                   *)
(*   t = "num"  : v is a one-element sequence holding the number           *)
(*   t = "null" : Python None                                              *)
(***************************************************************************)
EXTENDS Integers, Sequences, FiniteSets, TLC

\* ------------------------------------------------------------------ bounds
MaxPieces == 3      \* pieces concatenated into an input of clean_text_markers
MaxLangs == 4       \* length of a language list given to pick_language_entry
MaxFields == 3      \* number of fields of a dialogue entry
MaxScenes == 3      \* number of scenes of a document
MaxManifest == 2    \* number of lines of jsonlist.txt
MaxTime == 1        \* largest clock value / modification time
MaxEdits == 1       \* changes the outside world makes to the source directory

\* ------------------------------------------------------------- JSON values
None == [t |-> "null", v |-> <<>>]
Absent == [t |-> "absent", v |-> <<>>]
Str(s) == [t |-> "str", v |-> s]
List(xs) == [t |-> "list", v |-> xs]
Num(n) == [t |-> "num", v |-> <<n>>]
Dict(r) == [t |-> "dict", v |-> r]

IsStr(x) == x.t = "str"
IsList(x) == x.t = "list"
IsDict(x) == x.t = "dict"
IsNone(x) == x.t = "null"
IsAbsent(x) == x.t = "absent"

\* Python truthiness of a str value: non-empty
NonEmptyStr(x) == IsStr(x) /\ Len(x.v) > 0

\* dict.get(key): the value, or None when the key is not present
Get(d, k) == IF IsAbsent(d.v[k]) THEN None ELSE d.v[k]

\* ------------------------------------------------------------ code points
cPct == 37      \* '%'
cSemi == 59     \* ';'
cf == 102       \* 'f'
sHello == <<72, 101, 108, 108, 111>>
sAmy == <<65, 109, 121>>
sHi == <<72, 105>>
sNiHao == <<20320, 22909>>           \* U+4F60 U+597D

\* ZH_RE = [\u3400-\u4dbf \u4e00-\u9fff \uf900-\ufaff]  (13312-19903, 19968-40959, 63744-64255)
ZhChar(c) == \/ (c >= 13312 /\ c <= 19903)
             \/ (c >= 19968 /\ c <= 40959)
             \/ (c >= 63744 /\ c <= 64255)

\* ZH_RE.search(text)
ZH_RE_search(s) == \E i \in 1..Len(s) : ZhChar(s[i])

PREFERRED_ZH_INDEXES_Swapped == <<2, 3>>

PREFERRED_ZH_INDEXES == <<3, 2>>

\* '%fSourceHanSansCN-M;' and '%f;'
MarkerFont == <<37, 102, 83, 111, 117, 114, 99, 101, 72, 97, 110, 83, 97, 110,
                115, 67, 78, 45, 77, 59>>
MarkerPlain == <<37, 102, 59>>
TEXT_MARKERS_TO_REMOVE == <<MarkerFont, MarkerPlain>>

\* ------------------------------------------------------ clean_text_markers
StartsWith(s, m) == Len(s) >= Len(m) /\ SubSeq(s, 1, Len(m)) = m

\* Occurrence of m anywhere in s
Contains(s, m) == \E i \in 1..(Len(s) - Len(m) + 1) : SubSeq(s, i, i + Len(m) - 1) = m

\* str.replace(m, ''): one left-to-right pass over non-overlapping occurrences
RECURSIVE StrReplace(_, _)
StrReplace(s, m) ==
    IF Len(s) < Len(m) THEN s
    ELSE IF StartsWith(s, m) THEN StrReplace(SubSeq(s, Len(m) + 1, Len(s)), m)
    ELSE <<s[1]>> \o StrReplace(Tail(s), m)

RECURSIVE RemoveMarkers(_, _, _)
RemoveMarkers(s, markers, k) ==
    IF k > Len(markers) THEN s
    ELSE RemoveMarkers(StrReplace(s, markers[k]), markers, k + 1)

clean_text_markers(text) ==
    IF IsNone(text) THEN None
    ELSE Str(RemoveMarkers(text.v, TEXT_MARKERS_TO_REMOVE, 1))

\* -------------------------------------------------------- ensure_scene_slot
RECURSIVE ensure_scene_slot_Off(_, _)
ensure_scene_slot_Off(container, index) ==
    IF Len(container) <= index + 1
    THEN ensure_scene_slot_Off(Append(container, None), index)
    ELSE container

RECURSIVE ensure_scene_slot(_, _)
ensure_scene_slot(container, index) ==
    IF Len(container) <= index
    THEN ensure_scene_slot(Append(container, None), index)
    ELSE container

\* ---------------------------------------------------------- entry resolver
is_language_item(item) ==
    IsList(item) /\ Len(item.v) >= 2 /\ IsStr(item.v[2])

AllLanguageItems(field) == \A i \in 1..Len(field.v) : is_language_item(field.v[i])

RECURSIVE FindFrom(_, _)
FindFrom(fields, k) ==
    IF k > Len(fields) THEN None
    ELSE IF IsList(fields[k]) /\ Len(fields[k].v) > 0 /\ AllLanguageItems(fields[k])
         THEN fields[k]
         ELSE FindFrom(fields, k + 1)

find_language_list(text_entry) ==
    IF ~IsList(text_entry) THEN None ELSE FindFrom(text_entry.v, 1)

\* ------------------------------------------------------- language selector
\* first loop: for index in PREFERRED_ZH_INDEXES (0-based indexes)
RECURSIVE PickPreferred(_, _)
PickPreferred(ll, k) ==
    IF k > Len(PREFERRED_ZH_INDEXES) THEN None
    ELSE LET index == PREFERRED_ZH_INDEXES[k] IN
         IF index < Len(ll) /\ is_language_item(ll[index + 1])
                            /\ Len(ll[index + 1].v[2].v) > 0
         THEN ll[index + 1]
         ELSE PickPreferred(ll, k + 1)

\* second loop: for item in language_list
RECURSIVE PickZh(_, _)
PickZh(ll, k) ==
    IF k > Len(ll) THEN None
    ELSE IF is_language_item(ll[k]) /\ Len(ll[k].v[2].v) > 0 /\ ZH_RE_search(ll[k].v[2].v)
         THEN ll[k]
         ELSE PickZh(ll, k + 1)

\* third loop: for item in reversed(language_list)
RECURSIVE PickReversed(_, _)
PickReversed(ll, k) ==
    IF k < 1 THEN None
    ELSE IF is_language_item(ll[k]) /\ Len(ll[k].v[2].v) > 0
         THEN ll[k]
         ELSE PickReversed(ll, k - 1)

pick_language_entry(language_list) ==
    LET p == PickPreferred(language_list, 1) IN
    IF ~IsNone(p) THEN p
    ELSE LET z == PickZh(language_list, 1) IN
         IF ~IsNone(z) THEN z
         ELSE PickReversed(language_list, Len(language_list))

\* ------------------------------------------------------- fallback resolver
RECURSIVE FallbackFrom(_, _, _)
FallbackFrom(fields, order, k) ==
    IF k > Len(order) THEN None
    ELSE IF order[k] < Len(fields) /\ NonEmptyStr(fields[order[k] + 1])
         THEN fields[order[k] + 1]
         ELSE FallbackFrom(fields, order, k + 1)

pick_fallback_character(text_entry, prefer_index1) ==
    LET order == IF prefer_index1 THEN <<1, 0>> ELSE <<0, 1>> IN
    FallbackFrom(text_entry.v, order, 1)

\* The compatibility fallback (lines after the language-list branch)
LegacyFallback(text_entry) ==
    LET e == text_entry.v IN
    IF Len(e) > 2 /\ IsStr(e[3])
    THEN <<pick_fallback_character(text_entry, TRUE), clean_text_markers(e[3])>>
    ELSE IF Len(e) > 1 /\ IsStr(e[2])
    THEN <<pick_fallback_character(text_entry, TRUE), clean_text_markers(e[2])>>
    ELSE <<pick_fallback_character(text_entry, TRUE), None>>

\* returns <<character, text>>
extract_character_and_text(text_entry) ==
    IF ~IsList(text_entry) THEN <<None, None>>
    ELSE LET language_list == find_language_list(text_entry) IN
         IF ~IsNone(language_list)
         THEN LET selected == pick_language_entry(language_list.v) IN
              IF ~IsNone(selected)
              THEN LET c0 == IF Len(selected.v) > 0 /\ IsStr(selected.v[1])
                             THEN selected.v[1] ELSE None
                       character == IF NonEmptyStr(c0) THEN c0
                                    ELSE pick_fallback_character(text_entry, FALSE)
                   IN <<character, clean_text_markers(selected.v[2])>>
              ELSE LegacyFallback(text_entry)
         ELSE LegacyFallback(text_entry)

\* ------------------------------------------------------------ scene walker
\* for text_entry in scene_texts: append character, then text
RECURSIVE AppendEntries(_, _, _)
AppendEntries(scene_texts, k, slot) ==
    IF k > Len(scene_texts) THEN slot
    ELSE LET ct == extract_character_and_text(scene_texts[k]) IN
         AppendEntries(scene_texts, k + 1, Append(Append(slot, ct[1]), ct[2]))

\* one iteration of "for scene_index, scene in enumerate(scenes)"
SceneStep(scene, scene_index, out) ==
    IF ~IsDict(scene) THEN out
    ELSE LET scene_texts == Get(scene, "texts")
             ut == IF IsList(scene_texts)
                   THEN [ensure_scene_slot(out.user_text, scene_index)
                            EXCEPT ![scene_index + 1] =
                                List(AppendEntries(scene_texts.v, 1, <<>>))]
                   ELSE out.user_text
             us == IF ~IsAbsent(scene.v.selects)
                   THEN [ensure_scene_slot(out.user_select, scene_index)
                            EXCEPT ![scene_index + 1] = scene.v.selects]
                   ELSE out.user_select
         IN [user_text |-> ut, user_select |-> us]

RECURSIVE WalkScenes(_, _, _)
WalkScenes(scenes, k, out) ==
    IF k > Len(scenes) THEN out
    ELSE WalkScenes(scenes, k + 1, SceneStep(scenes[k], k - 1, out))

LogSkipped == "skipped (no scenes)."
LogDone == "extract DONE!"
LogNoUpdate == "No file updated, have a good day!"
LogTimeUpdated == "Extract time updated."

\* The payloads extract_file hands to write_extract_files, and its log line
extract_payload(origin_json) ==
    LET scenes == IF IsDict(origin_json) THEN Get(origin_json, "scenes") ELSE None IN
    IF ~IsList(scenes)
    THEN [user_text |-> <<>>, user_select |-> <<>>, log |-> LogSkipped]
    ELSE LET out == WalkScenes(scenes.v, 1, [user_text |-> <<>>, user_select |-> <<>>])
         IN [user_text |-> out.user_text, user_select |-> out.user_select, log |-> LogDone]

\* extract_file's return value, which main tests
extract_file_returns_Skipped(origin_json) ==
    IsDict(origin_json) /\ IsList(Get(origin_json, "scenes"))

extract_file_returns(origin_json) == TRUE

\* ------------------------------------------------------------------- state
VARIABLES
    arg,             \* input of the function under test (pure specifications)
    ret,             \* its result
    called,          \* whether it has been applied
    manifest,        \* lines of jsonlist.txt, in order
    now,             \* wall clock
    srcExists,       \* json/<name> exists
    srcMtime,        \* st_mtime of json/<name>
    srcDoc,          \* content of json/<name>
    tsExists,        \* last_extract_time.txt exists
    tsMtime,         \* st_mtime of last_extract_time.txt
    textOut,         \* extract/text/<name>: Absent or the payload written
    selectOut,       \* extract/select/<name>: Absent or the payload written
    pc,              \* position of main: "idle", "loop", "done", "failed"
    modified_files,  \* main's work list
    idx,             \* position of main's for loop in modified_files
    new_extract,     \* main's flag
    lastLog,         \* last line written to stderr
    exitCode,        \* value main returned (-1: none yet)
    edits,           \* history: number of outside changes so far
    dirty,           \* history: file never extracted, or changed since extract_file read it
    h                \* history of the current and the previous run

pureVars == <<arg, ret, called>>
fsVars == <<srcExists, srcMtime, srcDoc, tsExists, tsMtime, textOut, selectOut>>
procVars == <<pc, modified_files, idx, new_extract, lastLog, exitCode>>
driverVars == <<manifest, now, fsVars, procVars, edits, dirty, h>>
vars == <<pureVars, driverVars>>

Files == {"a", "b"}

\* Source contents: text that json.load rejects, or a document
Malformed == [t |-> "malformed", v |-> <<>>]
DocNoScenes == Dict([scenes |-> Absent])
DocAmy == Dict([scenes |-> List(<<Dict([texts |-> List(<<List(<<Str(sAmy), Str(sHi), Str(sHello)>>)>>),
                                       selects |-> Absent])>>)])
DriverDocs == {Malformed, DocNoScenes, DocAmy}

\* All sequences over S of length lo..hi
SeqsOf(S, lo, hi) == UNION {[1..n -> S] : n \in lo..hi}

\* History: ts0 = the timestamp file when the current run started; srcChanged =
\* a source changed since then; prev = outcome of the run before ("done" or
\* "failed") provided no source changed from its start to the start of the
\* current run, else "none"; prevSelected = the work list of a failed such run;
\* tsWritten = the current run wrote the timestamp; extracted = the files
\* extract_file has completed in the current run
H0 == [ts0 |-> <<FALSE, 0>>, srcChanged |-> FALSE, prev |-> "none",
       prevSelected |-> <<>>, tsWritten |-> FALSE, extracted |-> <<>>]

\* The names the manifest lists; files it does not list are never looked at
Listed(json_files) == {json_files[i] : i \in 1..Len(json_files)}

\* A fresh checkout: sources in any state, nothing extracted yet
DriverInit ==
    /\ manifest \in SeqsOf(Files, 0, MaxManifest)
    /\ now = 0
    /\ srcExists \in [Files -> BOOLEAN]
    /\ srcMtime \in [Files -> 0..MaxTime]
    /\ srcDoc \in [Files -> DriverDocs]
    /\ \A f \in Files : ~srcExists[f] => (srcMtime[f] = 0 /\ srcDoc[f] = DocNoScenes)
    /\ \A f \in Files : srcExists[f] => f \in Listed(manifest)
    /\ tsExists = FALSE
    /\ tsMtime = 0
    /\ textOut = [f \in Files |-> Absent]
    /\ selectOut = [f \in Files |-> Absent]
    /\ pc = "idle"
    /\ modified_files = <<>>
    /\ idx = 1
    /\ new_extract = FALSE
    /\ lastLog = ""
    /\ exitCode = -1
    /\ edits = 0
    /\ dirty = [f \in Files |-> TRUE]
    /\ h = H0

\* The driver at rest with an empty source directory (pure specifications)
DriverIdle ==
    /\ manifest = <<>>
    /\ now = 0
    /\ srcExists = [f \in Files |-> FALSE]
    /\ srcMtime = [f \in Files |-> 0]
    /\ srcDoc = [f \in Files |-> DocNoScenes]
    /\ tsExists = FALSE
    /\ tsMtime = 0
    /\ textOut = [f \in Files |-> Absent]
    /\ selectOut = [f \in Files |-> Absent]
    /\ pc = "idle"
    /\ modified_files = <<>>
    /\ idx = 1
    /\ new_extract = FALSE
    /\ lastLog = ""
    /\ exitCode = -1
    /\ edits = 0
    /\ dirty = [f \in Files |-> TRUE]
    /\ h = H0

PureIdle == arg = None /\ ret = Absent /\ called = FALSE

\* ---------------------------------------------------------- change detector
RECURSIVE CollectFromGe(_, _, _)
CollectFromGe(json_files, k, targets) ==
    IF k > Len(json_files) THEN targets
    ELSE LET name == json_files[k] IN
         IF ~srcExists[name] THEN CollectFromGe(json_files, k + 1, targets)
         ELSE IF ~tsExists \/ srcMtime[name] >= tsMtime
              THEN CollectFromGe(json_files, k + 1, Append(targets, name))
              ELSE CollectFromGe(json_files, k + 1, targets)

collect_modified_files_Ge(json_files) == CollectFromGe(json_files, 1, <<>>)

RECURSIVE CollectFrom(_, _, _)
CollectFrom(json_files, k, targets) ==
    IF k > Len(json_files) THEN targets
    ELSE LET name == json_files[k] IN
         IF ~srcExists[name] THEN CollectFrom(json_files, k + 1, targets)
         ELSE IF ~tsExists \/ srcMtime[name] > tsMtime
              THEN CollectFrom(json_files, k + 1, Append(targets, name))
              ELSE CollectFrom(json_files, k + 1, targets)

collect_modified_files(json_files) == CollectFrom(json_files, 1, <<>>)

\* ------------------------------------------------------------------ driver
\* main starts as a new process (nothing on stderr yet): chdir, read the
\* manifest, build the work list
MainStart ==
    /\ pc \in {"idle", "done", "failed"}
    /\ modified_files' = collect_modified_files(manifest)
    /\ idx' = 1
    /\ new_extract' = FALSE
    /\ pc' = "loop"
    /\ exitCode' = -1
    /\ lastLog' = ""
    /\ h' = [ts0 |-> <<tsExists, tsMtime>>, srcChanged |-> FALSE,
             prev |-> IF pc = "idle" \/ h.srcChanged THEN "none" ELSE pc,
             prevSelected |-> IF pc = "failed" /\ ~h.srcChanged THEN modified_files ELSE <<>>,
             tsWritten |-> FALSE, extracted |-> <<>>]
    /\ UNCHANGED <<pureVars, manifest, now, fsVars, edits, dirty>>

CurrentFile == modified_files[idx]

\* extract_file(filename) runs to its return
ExtractOK ==
    /\ pc = "loop" /\ idx <= Len(modified_files)
    /\ srcExists[CurrentFile] /\ srcDoc[CurrentFile] # Malformed
    /\ LET out == extract_payload(srcDoc[CurrentFile]) IN
        /\ textOut' = [textOut EXCEPT ![CurrentFile] = List(out.user_text)]
        /\ selectOut' = [selectOut EXCEPT ![CurrentFile] = List(out.user_select)]
        /\ lastLog' = out.log
    /\ new_extract' = (new_extract \/ extract_file_returns(srcDoc[CurrentFile]))
    /\ idx' = idx + 1
    /\ dirty' = [dirty EXCEPT ![CurrentFile] = FALSE]
    /\ h' = [h EXCEPT !.extracted = Append(@, CurrentFile)]
    /\ UNCHANGED <<pureVars, manifest, now, srcExists, srcMtime, srcDoc, tsExists, tsMtime,
                   pc, modified_files, exitCode, edits>>

\* The failure also (wrongly) records the extraction time
ExtractParseErrorStamped ==
    /\ pc = "loop" /\ idx <= Len(modified_files)
    /\ srcExists[CurrentFile] /\ srcDoc[CurrentFile] = Malformed
    /\ pc' = "failed"
    /\ exitCode' = 1
    /\ tsExists' = TRUE
    /\ tsMtime' = now
    /\ UNCHANGED <<pureVars, manifest, now, srcExists, srcMtime, srcDoc, textOut, selectOut,
                   modified_files, idx, new_extract, lastLog, edits, dirty, h>>

\* json.load raises: the exception leaves main
ExtractParseError ==
    /\ pc = "loop" /\ idx <= Len(modified_files)
    /\ srcExists[CurrentFile] /\ srcDoc[CurrentFile] = Malformed
    /\ pc' = "failed"
    /\ exitCode' = 1
    /\ UNCHANGED <<pureVars, manifest, now, fsVars, modified_files, idx, new_extract,
                   lastLog, edits, dirty, h>>

\* source.open raises: the file was removed after the work list was built
ExtractOpenError ==
    /\ pc = "loop" /\ idx <= Len(modified_files)
    /\ ~srcExists[CurrentFile]
    /\ pc' = "failed"
    /\ exitCode' = 1
    /\ UNCHANGED <<pureVars, manifest, now, fsVars, modified_files, idx, new_extract,
                   lastLog, edits, dirty, h>>

\* write_extract_files raises, before the text artifact is written or
\* after it and before the select artifact is
ExtractWriteError ==
    /\ pc = "loop" /\ idx <= Len(modified_files)
    /\ srcExists[CurrentFile] /\ srcDoc[CurrentFile] # Malformed
    /\ \/ textOut' = textOut
       \/ textOut' = [textOut EXCEPT ![CurrentFile] =
                         List(extract_payload(srcDoc[CurrentFile]).user_text)]
    /\ pc' = "failed"
    /\ exitCode' = 1
    /\ UNCHANGED <<pureVars, manifest, now, srcExists, srcMtime, srcDoc, tsExists, tsMtime,
                   selectOut, modified_files, idx, new_extract, lastLog, edits, dirty, h>>

\* if not new_extract: log(...); return 0
MainNoUpdate ==
    /\ pc = "loop" /\ idx > Len(modified_files)
    /\ ~new_extract
    /\ lastLog' = LogNoUpdate
    /\ exitCode' = 0
    /\ pc' = "done"
    /\ UNCHANGED <<pureVars, manifest, now, fsVars, modified_files, idx, new_extract, edits, dirty, h>>

\* update_extract_time(LAST_EXTRACT_TIME_PATH); return 0
update_extract_time ==
    /\ pc = "loop" /\ idx > Len(modified_files)
    /\ new_extract
    /\ tsExists' = TRUE
    /\ tsMtime' = now
    /\ lastLog' = LogTimeUpdated
    /\ exitCode' = 0
    /\ pc' = "done"
    /\ h' = [h EXCEPT !.tsWritten = TRUE]
    /\ UNCHANGED <<pureVars, manifest, now, srcExists, srcMtime, srcDoc, textOut, selectOut,
                   modified_files, idx, new_extract, edits, dirty>>

\* ------------------------------------------------------------- environment
Tick ==
    /\ now < MaxTime
    /\ now' = now + 1
    /\ UNCHANGED <<pureVars, manifest, fsVars, procVars, edits, dirty, h>>

\* Somebody saves a new content into an existing source file
EditSource ==
    \E f \in Listed(manifest), d \in DriverDocs :
        /\ edits < MaxEdits
        /\ edits' = edits + 1
        /\ srcExists[f] /\ d # srcDoc[f]
        /\ srcDoc' = [srcDoc EXCEPT ![f] = d]
        /\ srcMtime' = [srcMtime EXCEPT ![f] = now]
        /\ dirty' = [dirty EXCEPT ![f] = TRUE]
        /\ h' = [h EXCEPT !.srcChanged = TRUE]
        /\ UNCHANGED <<pureVars, manifest, now, srcExists, tsExists, tsMtime, textOut,
                       selectOut, procVars>>

\* Somebody copies or moves a file into json/, keeping its modification time
AddSource ==
    \E f \in Listed(manifest), d \in DriverDocs, m \in 0..MaxTime :
        /\ edits < MaxEdits
        /\ edits' = edits + 1
        /\ ~srcExists[f]
        /\ srcExists' = [srcExists EXCEPT ![f] = TRUE]
        /\ srcDoc' = [srcDoc EXCEPT ![f] = d]
        /\ srcMtime' = [srcMtime EXCEPT ![f] = m]
        /\ dirty' = [dirty EXCEPT ![f] = TRUE]
        /\ h' = [h EXCEPT !.srcChanged = TRUE]
        /\ UNCHANGED <<pureVars, manifest, now, tsExists, tsMtime, textOut, selectOut,
                       procVars>>

RemoveSource ==
    \E f \in Listed(manifest) :
        /\ edits < MaxEdits
        /\ edits' = edits + 1
        /\ srcExists[f]
        /\ srcExists' = [srcExists EXCEPT ![f] = FALSE]
        /\ srcDoc' = [srcDoc EXCEPT ![f] = DocNoScenes]
        /\ srcMtime' = [srcMtime EXCEPT ![f] = 0]
        /\ h' = [h EXCEPT !.srcChanged = TRUE]
        /\ UNCHANGED <<pureVars, manifest, now, tsExists, tsMtime, textOut, selectOut,
                       procVars, dirty>>

Init == DriverInit /\ PureIdle

Next ==
    \/ MainStart
    \/ ExtractOK
    \/ ExtractParseError
    \/ ExtractOpenError
    \/ ExtractWriteError
    \/ MainNoUpdate
    \/ update_extract_time
    \/ Tick
    \/ EditSource
    \/ AddSource
    \/ RemoveSource

Spec == Init /\ [][Next]_vars

\* ------------------------------------------- inputs of the pure functions
\* Texts built from the markers, fragments of them, and plain text
FontHead == SubSeq(MarkerFont, 1, 15)        \* '%fSourceHanSans'
FontTail == SubSeq(MarkerFont, 16, 20)       \* 'CN-M;'
Pieces == {MarkerFont, MarkerPlain, <<cPct>>, <<cf, cSemi>>, sHello, FontHead, FontTail}

RECURSIVE Concats(_)
Concats(n) ==
    IF n = 0 THEN {<<>>}
    ELSE LET shorter == Concats(n - 1) IN
         shorter \cup {p \o q : p \in Pieces, q \in shorter}

CleanInputs == {None} \cup {Str(s) : s \in Concats(MaxPieces)}

\* Items of a language list: [character, text, ...]
ItemEmpty == List(<<Str(<<65>>), Str(<<>>)>>)                  \* ["A", ""]
ItemEmptyB == List(<<Str(<<66>>), Str(<<>>)>>)                 \* ["B", ""]
ItemEmptyD == List(<<Str(<<68>>), Str(<<>>)>>)                 \* ["D", ""]
ItemLatin == List(<<Str(<<76>>), Str(<<98>>)>>)                \* ["L", "b"]
ItemZh == List(<<Str(<<67>>), Str(sNiHao)>>)                   \* ["C", U+4F60 U+597D]
ItemZhLast == List(<<Str(<<90>>), Str(<<100, 64255>>)>>)       \* ["Z", "d" U+FAFF]
ItemNearZh == List(<<None, Str(<<19904>>)>>)                   \* [null, U+4DC0]
ItemShort == List(<<Str(<<69>>)>>)                             \* ["E"]: no text
LangItems == {ItemEmpty, ItemEmptyB, ItemEmptyD, ItemLatin, ItemZh, ItemZhLast,
              ItemNearZh, ItemShort}

LangInputs == {List(q) : q \in SeqsOf(LangItems, 1, MaxLangs)}

\* Fields of a dialogue entry
FieldBlankList == List(<<ItemEmpty>>)                          \* [["A", ""]]
FieldLangList == List(<<ItemEmpty, ItemNearZh, ItemLatin>>)
FieldNoChar == List(<<ItemNearZh>>)                            \* [[null, U+4DC0]]
FieldNotLang == List(<<ItemLatin, ItemShort>>)                 \* not a language list
EntryFields == {Str(sAmy), Str(sHi), Str(<<>>), Str(MarkerPlain \o sHello), None, Num(7),
                FieldBlankList, FieldLangList, FieldNoChar, FieldNotLang}

EntryInputs == {None, Str(sHi)} \cup {List(q) : q \in SeqsOf(EntryFields, 0, MaxFields)}

\* Scenes of a document
TextsAmy == List(<<List(<<Str(sAmy), Str(sHi)>>)>>)            \* [["Amy", "Hi"]]
TextsTwo == List(<<List(<<Str(sHi), FieldLangList>>), None>>)
SceneNotDict == Str(sHi)
SceneBare == Dict([texts |-> Absent, selects |-> Absent])
SceneTexts == Dict([texts |-> TextsAmy, selects |-> Absent])
SceneSelects == Dict([texts |-> Absent, selects |-> List(<<Num(1)>>)])
SceneBoth == Dict([texts |-> TextsTwo, selects |-> Str(sHello)])
SceneTextsNotList == Dict([texts |-> Str(sAmy), selects |-> None])
ScenePool == {SceneNotDict, SceneBare, SceneTexts, SceneSelects, SceneBoth, SceneTextsNotList}

DocInputs == {DocNoScenes, Dict([scenes |-> Str(sHi)]), List(<<>>)}
                 \cup {Dict([scenes |-> List(q)]) : q \in SeqsOf(ScenePool, 0, MaxScenes)}

\* -------------------------------------------------- pure specifications
PureUnchanged == UNCHANGED <<arg, driverVars>>

InitClean == DriverIdle /\ arg \in CleanInputs /\ ret = Absent /\ called = FALSE

CallClean ==
    /\ ~called
    /\ ret' = clean_text_markers(arg)
    /\ called' = TRUE
    /\ PureUnchanged

SpecClean == InitClean /\ [][CallClean]_vars

InitLang == DriverIdle /\ arg \in LangInputs /\ ret = Absent /\ called = FALSE

CallPick ==
    /\ ~called
    /\ ret' = pick_language_entry(arg.v)
    /\ called' = TRUE
    /\ PureUnchanged

SpecLang == InitLang /\ [][CallPick]_vars

InitEntry == DriverIdle /\ arg \in EntryInputs /\ ret = Absent /\ called = FALSE

CallExtract ==
    /\ ~called
    /\ ret' = extract_character_and_text(arg)
    /\ called' = TRUE
    /\ PureUnchanged

SpecEntry == InitEntry /\ [][CallExtract]_vars

InitScenes == DriverIdle /\ arg \in DocInputs /\ ret = Absent /\ called = FALSE

CallWalk ==
    /\ ~called
    /\ ret' = extract_payload(arg)
    /\ called' = TRUE
    /\ PureUnchanged

SpecScenes == InitScenes /\ [][CallWalk]_vars

\* ================================================================ claims
\* Equality of two JSON values, decided on the tag first
Same(x, y) == x.t = y.t /\ x.v = y.v

\* C9: every text clean_text_markers returns contains no occurrence of
\* '%fSourceHanSansCN-M;' nor of '%f;', cleaning it again changes nothing,
\* '%fSourceHanSansCN-M;Hello%f;' cleans to 'Hello', and None stays None.
C9_NoMarkerLeft ==
    called =>
        IF IsNone(arg) THEN IsNone(ret)
        ELSE /\ IsStr(ret)
             /\ ~Contains(ret.v, MarkerFont)
             /\ ~Contains(ret.v, MarkerPlain)
             /\ Same(clean_text_markers(ret), ret)
             /\ (arg.v = MarkerFont \o sHello \o MarkerPlain => ret.v = sHello)

\* C5: a legacy entry [c, t] of two non-empty strings extracts to
\* character c and the marker-cleaned text t (["Amy", "Hi"] gives "Amy", "Hi").
C5_LegacyPair ==
    (called /\ IsList(arg) /\ Len(arg.v) = 2
            /\ NonEmptyStr(arg.v[1]) /\ NonEmptyStr(arg.v[2]))
        => /\ Same(ret[1], arg.v[1])
           /\ Same(ret[2], clean_text_markers(arg.v[2]))

\* The first field of the entry that is a non-empty list of language items
IsLangField(x) ==
    /\ IsList(x) /\ Len(x.v) > 0
    /\ \A i \in 1..Len(x.v) : IsList(x.v[i]) /\ Len(x.v[i].v) >= 2 /\ IsStr(x.v[i].v[2])

HasText(item) == IsList(item) /\ Len(item.v) >= 2 /\ IsStr(item.v[2]) /\ Len(item.v[2].v) > 0

\* C8: the positional fallback is used only when the entry has no language
\* list; when a language list is found and none of its items has non-empty
\* text, the extracted text is null (never the entry's index 1 or index 2).
C8_NoFallbackWithLangList ==
    (called /\ IsList(arg) /\ (\E k \in 1..Len(arg.v) : IsLangField(arg.v[k])))
        => LET k == CHOOSE j \in 1..Len(arg.v) :
                        IsLangField(arg.v[j]) /\ \A i \in 1..(j - 1) : ~IsLangField(arg.v[i])
               ll == arg.v[k].v
           IN (\A i \in 1..Len(ll) : ~HasText(ll[i])) => IsNone(ret[2])

\* C7: pick_language_entry follows the tiers: index 3 then index 2 when the
\* item there has non-empty text; else the first item whose text has a CJK
\* character; else the last item with non-empty text; else nothing.  What it
\* returns always has non-empty text.
C7_TieredPick ==
    called =>
        LET ll == arg.v
            ok(i) == i \in 1..Len(ll) /\ HasText(ll[i])
            zh(i) == ok(i) /\ \E j \in 1..Len(ll[i].v[2].v) :
                                LET c == ll[i].v[2].v[j] IN
                                \/ c \in 13312..19903
                                \/ c \in 19968..40959
                                \/ c \in 63744..64255
            tier1 == ok(4) \/ ok(3)
            tier2 == \E i \in 1..Len(ll) : zh(i)
            tier3 == \E i \in 1..Len(ll) : ok(i)
        IN /\ ok(4) => Same(ret, ll[4])
           /\ (~ok(4) /\ ok(3)) => Same(ret, ll[3])
           /\ (~tier1 /\ tier2) =>
                 \E i \in 1..Len(ll) : zh(i) /\ (\A j \in 1..(i - 1) : ~zh(j)) /\ Same(ret, ll[i])
           /\ (~tier1 /\ ~tier2 /\ tier3) =>
                 \E i \in 1..Len(ll) : ok(i) /\ (\A j \in (i + 1)..Len(ll) : ~ok(j))
                                             /\ Same(ret, ll[i])
           /\ ~tier3 => IsNone(ret)
           /\ ~IsNone(ret) => HasText(ret)
           /\ Same(arg, List(<<ItemEmpty, ItemEmptyB, ItemZh, ItemEmptyD>>)) => Same(ret, ItemZh)

\* C7 witness: the list [[A,""],[B,""],[C,cjk],[D,""]] has been resolved to C
C7_Witness ==
    called /\ Same(arg, List(<<ItemEmpty, ItemEmptyB, ItemZh, ItemEmptyD>>)) /\ Same(ret, ItemZh)

\* C6: scene index alignment of the Text and Select outputs
C6_SceneAlignment ==
    (called /\ IsDict(arg) /\ IsList(arg.v.scenes)) =>
        LET sc == arg.v.scenes.v
            hasT(i) == IsDict(sc[i]) /\ IsList(sc[i].v.texts)
            hasS(i) == IsDict(sc[i]) /\ ~IsAbsent(sc[i].v.selects)
            top(P(_)) == IF \E i \in 1..Len(sc) : P(i)
                         THEN CHOOSE i \in 1..Len(sc) : P(i) /\ \A j \in (i + 1)..Len(sc) : ~P(j)
                         ELSE 0
            ut == ret.user_text
            us == ret.user_select
        IN /\ Len(ut) = top(hasT)
           /\ Len(us) = top(hasS)
           /\ \A i \in 1..Len(ut) :
                 IF hasT(i)
                 THEN LET entries == sc[i].v.texts.v IN
                      /\ IsList(ut[i])
                      /\ Len(ut[i].v) = 2 * Len(entries)
                      /\ \A j \in 1..Len(entries) :
                            /\ Same(ut[i].v[2 * j - 1], extract_character_and_text(entries[j])[1])
                            /\ Same(ut[i].v[2 * j], extract_character_and_text(entries[j])[2])
                 ELSE IsNone(ut[i])
           /\ \A i \in 1..Len(us) :
                 IF hasS(i) THEN Same(us[i], sc[i].v.selects) ELSE IsNone(us[i])

\* C6 witness: only scene index 2 has texts, an earlier scene has only selects
C6_Witness ==
    /\ called
    /\ Same(arg, Dict([scenes |-> List(<<SceneNotDict, SceneSelects, SceneTexts>>)]))
    /\ Len(ret.user_text) = 3 /\ IsNone(ret.user_text[1]) /\ IsNone(ret.user_text[2])
    /\ Len(ret.user_select) = 2

\* ------------------------------------------------------- driver claims
TsNow == <<tsExists, tsMtime>>

\* A step in which main builds its work list
CollectStep == pc # "loop" /\ pc' = "loop"

\* The manifest entry counts as modified
IsModified(name) == srcExists[name] /\ (~tsExists \/ srcMtime[name] > tsMtime)

\* C1: collect_modified_files returns exactly the manifest names, in manifest
\* order, whose source exists and that have no timestamp file to compare with
\* or are strictly newer than it; missing sources are skipped without error;
\* no file and no timestamp is changed.
C1_WorkList ==
    [][CollectStep => /\ modified_files' = SelectSeq(manifest, IsModified)
                      /\ UNCHANGED fsVars]_vars

\* C1 witness: of two listed files the first is exactly as old as the
\* timestamp file and only the second was selected
C1_Witness ==
    /\ pc = "loop" /\ idx = 1 /\ ~h.srcChanged
    /\ tsExists /\ Len(manifest) = 2 /\ manifest[1] # manifest[2]
    /\ srcExists[manifest[1]] /\ srcMtime[manifest[1]] = tsMtime
    /\ modified_files = <<manifest[2]>>

\* C2: a complete run that follows a complete run, no source having changed
\* since the first one started, selects nothing, writes no artifact, leaves
\* the timestamp file alone and reports "no file updated".
C2_SecondRunIdle ==
    (pc = "done" /\ h.prev = "done" /\ ~h.srcChanged)
        => /\ modified_files = <<>>
           /\ h.extracted = <<>>
           /\ ~h.tsWritten
           /\ TsNow = h.ts0
           /\ lastLog = LogNoUpdate

\* The artifacts of file f are what extract_file produces from its content
Fresh(f) ==
    /\ srcDoc[f] # Malformed
    /\ Same(textOut[f], List(extract_payload(srcDoc[f]).user_text))
    /\ Same(selectOut[f], List(extract_payload(srcDoc[f]).user_select))

\* C3: when a run fails on its k-th file, the artifacts of files 1..k-1 are
\* in place, no later file was processed, the timestamp file is as it was
\* when the run started, and the next run, sources unchanged, selects the
\* same files again.
C3_FailedRun ==
    /\ pc = "failed" =>
          /\ TsNow = h.ts0
          /\ idx <= Len(modified_files)
          /\ h.extracted = SubSeq(modified_files, 1, idx - 1)
          /\ \A i \in 1..(idx - 1) :
                /\ ~IsAbsent(textOut[modified_files[i]])
                /\ ~IsAbsent(selectOut[modified_files[i]])
                /\ ~h.srcChanged => Fresh(modified_files[i])
    /\ (pc \in {"loop", "done", "failed"} /\ h.prev = "failed")
          => modified_files = h.prevSelected

\* C3 witness: the run after one that failed on its second file starts with
\* the same two files, the first one's artifacts present, no timestamp file
C3_Witness ==
    /\ pc = "loop" /\ idx = 1 /\ h.prev = "failed"
    /\ Len(modified_files) = 2 /\ modified_files[1] # modified_files[2]
    /\ ~IsAbsent(selectOut[modified_files[1]])
    /\ IsAbsent(textOut[modified_files[2]])
    /\ ~tsExists

\* C4: a run that completes returns 0, and writes the timestamp file exactly
\* when the work list was not empty (a document without scenes counts), and
\* only after every file of the work list had both artifacts written.
C4_TimestampWrite ==
    /\ pc = "done" =>
          /\ exitCode = 0
          /\ h.tsWritten <=> Len(modified_files) > 0
    /\ (pc \in {"loop", "done"} /\ ~h.tsWritten) => TsNow = h.ts0
    /\ h.tsWritten =>
          /\ pc = "done" /\ tsExists
          /\ h.extracted = modified_files
          /\ \A i \in 1..Len(modified_files) :
                /\ ~IsAbsent(textOut[modified_files[i]])
                /\ ~IsAbsent(selectOut[modified_files[i]])

\* C4 witness: a run whose only file has no scenes list wrote the timestamp
C4_Witness ==
    /\ pc = "done" /\ h.tsWritten /\ ~h.srcChanged
    /\ Len(modified_files) = 1
    /\ srcDoc[modified_files[1]] = DocNoScenes
    /\ Same(textOut[modified_files[1]], List(<<>>))
    /\ lastLog = LogTimeUpdated

\* C10: a listed, existing file that was never extracted, or that changed
\* after extract_file last read it, is in the work list of the next run, and
\* after that run its artifacts reflect its content.
C10_NothingStale ==
    /\ (pc = "loop" /\ idx = 1 /\ ~h.srcChanged) =>
          \A f \in Listed(manifest) :
              (srcExists[f] /\ dirty[f]) => f \in Listed(modified_files)
    /\ (pc = "done" /\ ~h.srcChanged) =>
          \A f \in Listed(manifest) : srcExists[f] => Fresh(f)

====
